---- MODULE Spec2Model ----
(***************************************************************************)
(* A model of events.py: the extraction of the historical events of one    *)
(* day page, the per-link coordinate lookup, the coordinate directive      *)
(* decoder and the degree/minute/second conversion.                        *)
(*                                                                         *)
(* Text is a sequence of one-character strings.  The en dash U+2013 is the *)
(* one-character token EnDash.  Inner markup (decode_contents) is the same  *)
(* sequence with tag tokens in it.  A decimal number of events.py (a float *)
(* rounded to 4 places) is an integer count of ten-thousandths of a        *)
(* degree.                                                                 *)
(***************************************************************************)
EXTENDS Integers, Sequences, FiniteSets, TLC

VARIABLES
    request,          \* the arguments month and day of get_events_on_day
    pc,               \* position of get_events_on_day
    page,             \* the document as fetched, before anything is removed
    soup,             \* the parsed document: a sequence of nodes
    event_items,      \* indices into soup of the classified list items
    item_pos,         \* position of the loop of line 68 in event_items
    cur,              \* the entry being parsed: year, description, links
    link_pos,         \* position of the loop of line 113 in cur.links
    wiki_calls,       \* total_wiki_calls of get_events_with_locations
    events,           \* events of get_events_with_locations
    total_wiki_calls, \* total_wiki_calls of get_events_on_day
    events_on_day,    \* events_on_day of get_events_on_day
    raised,           \* the exception that ended the request, or NoException
    lookups,          \* history: one record per call of get_wikilink_coordinates
    fn_pc,            \* position of a single call of a helper function
    fn_in,            \* its argument
    fn_out            \* its result

vars == <<request, pc, page, soup, event_items, item_pos, cur, link_pos, wiki_calls, events,
          total_wiki_calls, events_on_day, raised, lookups, fn_pc, fn_in, fn_out>>

requestVars == <<request, pc, page, soup, event_items, item_pos, cur, link_pos, wiki_calls, events,
                 total_wiki_calls, events_on_day, raised, lookups>>

fnVars == <<fn_pc, fn_in, fn_out>>

-----------------------------------------------------------------------------
(* Bounds of the model.                                                    *)

MaxNodes == 2        \* nodes (list items and section headers) of a day page
MaxChildren == 2     \* links and citations of a day page, over all its list items
MaxDeg == 3          \* degrees handed to deg_to_dec
MaxMin == 61         \* minutes handed to deg_to_dec
MaxSec == 61         \* seconds handed to deg_to_dec
MaxTextLen == 4      \* characters of a list item's text handed to the classifier

-----------------------------------------------------------------------------
(* Characters and strings.                                                 *)

EnDash == "ndash"

Digits == {"0", "1", "2", "3", "4", "5", "6", "7", "8", "9"}

DigitVal(c) ==
    CASE c = "0" -> 0 [] c = "1" -> 1 [] c = "2" -> 2 [] c = "3" -> 3
      [] c = "4" -> 4 [] c = "5" -> 5 [] c = "6" -> 6 [] c = "7" -> 7
      [] c = "8" -> 8 [] c = "9" -> 9

RECURSIVE Concat(_)
Concat(ss) == IF ss = <<>> THEN <<>> ELSE Head(ss) \o Concat(Tail(ss))

StartsWith(s, p) == Len(s) >= Len(p) /\ SubSeq(s, 1, Len(p)) = p

Drop(s, n) == SubSeq(s, n + 1, Len(s))

\* str.find: the first index at which p occurs in s, 0 when it does not.
RECURSIVE FindFrom(_, _, _)
FindFrom(s, p, i) ==
    IF i + Len(p) - 1 > Len(s) THEN 0
    ELSE IF SubSeq(s, i, i + Len(p) - 1) = p THEN i
    ELSE FindFrom(s, p, i + 1)

Find(s, p) == FindFrom(s, p, 1)

Contains(s, p) == Find(s, p) # 0

\* str.split(sep, 1)
Split1(s, sep) ==
    LET i == Find(s, sep) IN
    IF i = 0 THEN <<s>>
    ELSE <<SubSeq(s, 1, i - 1), Drop(s, i + Len(sep) - 1)>>

\* str.split(sep)
RECURSIVE SplitAll(_, _)
SplitAll(s, sep) ==
    LET i == Find(s, sep) IN
    IF i = 0 THEN <<s>>
    ELSE <<SubSeq(s, 1, i - 1)>> \o SplitAll(Drop(s, i + Len(sep) - 1), sep)

\* str.replace(old, new) and re.sub of a literal pattern
RECURSIVE ReplaceAll(_, _, _)
ReplaceAll(s, old, new) ==
    LET i == Find(s, old) IN
    IF i = 0 THEN s
    ELSE SubSeq(s, 1, i - 1) \o new \o ReplaceAll(Drop(s, i + Len(old) - 1), old, new)

RECURSIVE LStrip(_)
LStrip(s) == IF s # <<>> /\ Head(s) = " " THEN LStrip(Tail(s)) ELSE s

RECURSIVE RStrip(_)
RStrip(s) ==
    IF s # <<>> /\ s[Len(s)] = " " THEN RStrip(SubSeq(s, 1, Len(s) - 1)) ELSE s

\* str.strip
Strip(s) == RStrip(LStrip(s))

\* The longest prefix of s made of digits: what \d+ consumes.
RECURSIVE DigitRun(_)
DigitRun(s) ==
    IF s # <<>> /\ Head(s) \in Digits THEN 1 + DigitRun(Tail(s)) ELSE 0

IsInt(s) == LET t == Strip(s) IN t # <<>> /\ \A i \in 1..Len(t) : t[i] \in Digits

RECURSIVE IntOfDigits(_)
IntOfDigits(t) ==
    IF t = <<>> THEN 0
    ELSE 10 * IntOfDigits(SubSeq(t, 1, Len(t) - 1)) + DigitVal(t[Len(t)])

\* int(s) of a string for which IsInt holds
IntOf(s) == IntOfDigits(Strip(s))

-----------------------------------------------------------------------------
(* deg_to_dec: the conversion to decimal degrees.  The hemisphere is a     *)
(* text, as every Python string of the model.                              *)

Abs(n) == IF n < 0 THEN -n ELSE n

\* round(x, 4) of x = n/3600 degrees, in ten-thousandths: n * 10000 / 3600 is
\* n * 25 / 9, whose fraction is a multiple of 1/9 and never a half, so that
\* rounding to nearest has no tie to break.
Round4(n) == (50 * n + 9) \div 18

\* deg_to_dec with the value cut to 4 decimal places instead of rounded.
deg_to_dec_truncating(degrees, minutes, seconds, hemisphere) ==
    LET dec == (25 * (3600 * degrees + 60 * minutes + seconds)) \div 9 IN
    IF hemisphere \in {<<"S">>, <<"W">>} THEN dec * (-1) ELSE dec

deg_to_dec(degrees, minutes, seconds, hemisphere) ==
    LET dec == Round4(3600 * degrees + 60 * minutes + seconds) IN
    IF hemisphere \in {<<"S">>, <<"W">>} THEN dec * (-1) ELSE dec

-----------------------------------------------------------------------------
(* COORD_RE and the decoding part of get_wikilink_coordinates.             *)

None == [none |-> TRUE]

\* The character classes [N|S] and [E|W] of COORD_RE: inside brackets the
\* bar is a member of the class, not an alternation.
LatClass == {"N", "|", "S"}
LonClass == {"E", "|", "W"}

\* Length of the prefix of s that \d+\| matches, 0 when none does.  \d+ is
\* greedy and a digit is never a bar, so that no shorter run can match.
NumBar(s) ==
    LET k == DigitRun(s) IN
    IF k > 0 /\ Len(s) > k /\ s[k + 1] = "|" THEN k + 1 ELSE 0

\* Length of the prefix of s that \d+\|\d+\|\d+\|[class] matches, 0 when none.
Triple(s, class) ==
    LET a == NumBar(s) IN
    IF a = 0 THEN 0 ELSE
    LET b == NumBar(Drop(s, a)) IN
    IF b = 0 THEN 0 ELSE
    LET c == NumBar(Drop(s, a + b)) IN
    IF c = 0 THEN 0 ELSE
    IF Len(s) > a + b + c /\ s[a + b + c + 1] \in class THEN a + b + c + 1 ELSE 0

CoordTag == <<"c", "o", "o", "r", "d", "|">>

\* COORD_RE matched at the start of s: the two groups, or None.
CoordMatchAt(s) ==
    IF ~StartsWith(s, CoordTag) THEN None ELSE
    LET r1 == Drop(s, Len(CoordTag))
        n1 == Triple(r1, LatClass) IN
    IF n1 = 0 THEN None ELSE
    LET r2 == Drop(r1, n1) IN
    IF r2 = <<>> \/ Head(r2) # "|" THEN None ELSE
    LET n2 == Triple(Tail(r2), LonClass) IN
    IF n2 = 0 THEN None
    ELSE [g1 |-> SubSeq(r1, 1, n1), g2 |-> SubSeq(Tail(r2), 1, n2)]

\* re.search(COORD_RE, data): the leftmost match.
RECURSIVE CoordSearchFrom(_, _)
CoordSearchFrom(data, i) ==
    IF i > Len(data) THEN None
    ELSE LET m == CoordMatchAt(Drop(data, i - 1)) IN
         IF m # None THEN m ELSE CoordSearchFrom(data, i + 1)

COORD_RE_search(data) == CoordSearchFrom(data, 1)

\* Lines 172-173: the fields of the two groups.
DirectiveFields(m) ==
    [latitude |-> SplitAll(m.g1, <<"|">>), longitude |-> SplitAll(m.g2, <<"|">>)]

\* Lines 175-178.
CoordinatesOf(f) ==
    [latitude  |-> deg_to_dec(IntOf(f.latitude[1]), IntOf(f.latitude[2]),
                              IntOf(f.latitude[3]), f.latitude[4]),
     longitude |-> deg_to_dec(IntOf(f.longitude[1]), IntOf(f.longitude[2]),
                              IntOf(f.longitude[3]), f.longitude[4])]

\* Lines 167-178: the coordinates decoded from a page source, or None.
DecodeCoordinates(data) ==
    LET coordinates == COORD_RE_search(data) IN
    IF coordinates = None THEN None ELSE CoordinatesOf(DirectiveFields(coordinates))

-----------------------------------------------------------------------------
(* A single call of deg_to_dec.                                            *)

NoException == "NoException"

\* No request is running: the state of the request while a helper is called
\* on its own.
RequestIdle ==
    /\ request = None
    /\ pc = "idle"
    /\ page = <<>>
    /\ soup = <<>>
    /\ event_items = <<>>
    /\ item_pos = 0
    /\ cur = None
    /\ link_pos = 0
    /\ wiki_calls = 0
    /\ events = <<>>
    /\ total_wiki_calls = 0
    /\ events_on_day = <<>>
    /\ raised = NoException
    /\ lookups = <<>>

Hemispheres == {<<"N">>, <<"S">>, <<"E">>, <<"W">>}

\* The two examples of the comments of lines 129-130, field by field.
ExampleInputs ==
    { [degrees |-> 33, minutes |-> 52, seconds |-> 4, hemisphere |-> <<"S">>],
      [degrees |-> 151, minutes |-> 12, seconds |-> 36, hemisphere |-> <<"E">>],
      [degrees |-> 35, minutes |-> 16, seconds |-> 27, hemisphere |-> <<"N">>],
      [degrees |-> 120, minutes |-> 39, seconds |-> 47, hemisphere |-> <<"W">>] }

ConvInputs ==
    [degrees : 0..MaxDeg, minutes : 0..MaxMin, seconds : 0..MaxSec,
     hemisphere : Hemispheres] \cup ExampleInputs

InitConv ==
    /\ RequestIdle
    /\ fn_pc = "deg_to_dec"
    /\ fn_in \in ConvInputs
    /\ fn_out = None

Convert ==
    /\ fn_pc = "deg_to_dec"
    /\ fn_out' = deg_to_dec(fn_in.degrees, fn_in.minutes, fn_in.seconds,
                            fn_in.hemisphere)
    /\ fn_pc' = "converted"
    /\ UNCHANGED <<fn_in, requestVars>>

NextConv == Convert

SpecConv == InitConv /\ [][NextConv]_vars

-----------------------------------------------------------------------------
(* A single decoding of a page source: lines 167-178.                      *)

NumStrs == {<<"0">>, <<"7">>, <<"1", "2">>}

MarkChars == {<<"N">>, <<"S">>, <<"E">>, <<"W">>, <<"|">>, <<"x">>, <<>>}

Bar == <<"|">>

Directive(d1, m1, s1, h1, d2, m2, s2, h2) ==
    CoordTag \o d1 \o Bar \o m1 \o Bar \o s1 \o Bar \o h1 \o Bar
             \o d2 \o Bar \o m2 \o Bar \o s2 \o Bar \o h2

\* What precedes the directive in the source: nothing, other text, the start
\* of a directive that is cut short.
Prefixes == {<<>>, <<"x", "|">>, CoordTag \o <<"1", "|">>}

DecodeSources ==
    { p \o Directive(d1, m1, s1, h1, <<"4">>, m2, <<"6">>, h2) \o <<"}">> :
        p \in Prefixes, d1 \in NumStrs, m1 \in NumStrs, s1 \in NumStrs,
        h1 \in MarkChars, m2 \in {<<"5">>, <<>>}, h2 \in MarkChars }

InitDecode ==
    /\ RequestIdle
    /\ fn_pc = "search"
    /\ fn_in \in DecodeSources
    /\ fn_out = None

\* Lines 167-173.
SearchDirective ==
    /\ fn_pc = "search"
    /\ LET coordinates == COORD_RE_search(fn_in) IN
       \/ /\ coordinates = None
          /\ fn_out' = None
          /\ fn_pc' = "decoded"
       \/ /\ coordinates # None
          /\ fn_out' = DirectiveFields(coordinates)
          /\ fn_pc' = "convert"
    /\ UNCHANGED <<fn_in, requestVars>>

\* Lines 175-178.
ConvertDirective ==
    /\ fn_pc = "convert"
    /\ fn_out' = CoordinatesOf(fn_out)
    /\ fn_pc' = "decoded"
    /\ UNCHANGED <<fn_in, requestVars>>

NextDecode == SearchDirective \/ ConvertDirective

SpecDecode == InitDecode /\ [][NextDecode]_vars

-----------------------------------------------------------------------------
(* Claims about deg_to_dec and the decoder.                                *)

Opposite(h) ==
    CASE h = <<"N">> -> <<"S">> [] h = <<"S">> -> <<"N">>
      [] h = <<"E">> -> <<"W">> [] h = <<"W">> -> <<"E">>

\* C8: for non-negative degrees, minutes and seconds deg_to_dec returns
\* degrees + minutes/60 + seconds/3600 rounded to 4 decimal places (the result
\* r, in ten-thousandths, is within half a ten-thousandth of 25n/9, n the
\* angle in seconds), non-negative for N and E, non-positive for S and W, and
\* the opposite hemisphere gives the negated value.
C8_DegToDecRoundsAndSigns ==
    fn_pc = "converted" =>
        LET n == 3600 * fn_in.degrees + 60 * fn_in.minutes + fn_in.seconds
            h == fn_in.hemisphere
        IN /\ 2 * Abs(9 * Abs(fn_out) - 25 * n) <= 9
           /\ h \in {<<"N">>, <<"E">>} => fn_out >= 0
           /\ h \in {<<"S">>, <<"W">>} => fn_out <= 0
           /\ deg_to_dec(fn_in.degrees, fn_in.minutes, fn_in.seconds, Opposite(h))
                = -fn_out

\* The example of section 8 of the specification: deg_to_dec(33, 52, 4, 'S')
\* is -33.8678.
C8_Witness ==
    /\ fn_pc = "converted"
    /\ fn_in = [degrees |-> 33, minutes |-> 52, seconds |-> 4, hemisphere |-> <<"S">>]
    /\ fn_out = -338678

\* C9: whenever the decoder reports a directive, the hemisphere handed to the
\* converter for the first triple is N or S and the one for the second triple
\* is E or W.
C9_HemisphereIsLetter ==
    fn_pc = "convert" =>
        /\ fn_out.latitude[4] \in {<<"N">>, <<"S">>}
        /\ fn_out.longitude[4] \in {<<"E">>, <<"W">>}

-----------------------------------------------------------------------------
(* The document.  A node is a list item or a section header.  A list item  *)
(* is the sequence of its children: text runs, <a> links, <sup> citations  *)
(* and <b> spans.  An href is a sequence of path tokens.                   *)

TextRun(s) == [tag |-> "text", s |-> s, link |-> FALSE, hasHref |-> FALSE, href |-> <<>>]
Anchor(href, s) == [tag |-> "a", s |-> s, link |-> TRUE, hasHref |-> TRUE, href |-> href]
BareAnchor(s) == [tag |-> "a", s |-> s, link |-> TRUE, hasHref |-> FALSE, href |-> <<>>]
BoldRun(s) == [tag |-> "b", s |-> s, link |-> FALSE, hasHref |-> FALSE, href |-> <<>>]
\* <sup><a href="#cite_note-1">[1]</a></sup>
Citation ==
    [tag |-> "sup", s |-> <<"[", "1", "]">>, link |-> TRUE, hasHref |-> TRUE,
     href |-> <<"#", "cite_note-1">>]

WikiLink == Anchor(<<"/", "wiki/", "Rome">>, <<"R">>)
ExternalLink == Anchor(<<"https://example.org/">>, <<"e">>)

ListItem(children) == [kind |-> "li", children |-> children]

\* A section header: the element that wraps the headline and the element
\* that carries the anchor id.
Header(wrapper, idTag, id) ==
    [kind |-> "header", wrapper |-> wrapper, idTag |-> idTag, id |-> id]

\* x.text of a list item
TagText(children) == Concat([i \in 1..Len(children) |-> children[i].s])

AnchorMarkup(c) ==
    <<"<a">> \o (IF c.hasHref THEN <<"href=">> \o c.href \o <<"quote">> ELSE <<>>)
             \o <<">">> \o c.s \o <<"</a>">>

ChildMarkup(c) ==
    CASE c.tag = "text" -> c.s
      [] c.tag = "a" -> AnchorMarkup(c)
      [] c.tag = "b" -> <<"<b>">> \o c.s \o <<"</b>">>
      [] c.tag = "sup" ->
            <<"<sup>">> \o (IF c.link THEN AnchorMarkup(c) ELSE c.s) \o <<"</sup>">>

\* event_tag.decode_contents()
DecodeContents(children) == Concat([i \in 1..Len(children) |-> ChildMarkup(children[i])])

\* Lines 70-72: every <sup> of the list item is decomposed.
RemoveCitations(children) == SelectSeq(children, LAMBDA c : c.tag # "sup")

\* event_tag.select('a'): the links of the list item, in document order.
SelectLinks(children) == SelectSeq(children, LAMBDA c : c.link)

-----------------------------------------------------------------------------
(* EVENT_RE and the classifier of line 63.                                 *)

Delimiter == <<" ", EnDash, " ">>

BCSuffix == <<" ", "B", "C">>

\* What ( BC)* consumes: every leading repetition of " BC".
RECURSIVE SkipBC(_)
SkipBC(s) == IF StartsWith(s, BCSuffix) THEN SkipBC(Drop(s, Len(BCSuffix))) ELSE s

\* EVENT_RE.match(text): ^(\d+)( BC)* followed by a space and an en dash.
EVENT_RE_match(text) ==
    LET k == DigitRun(text) IN
    k > 0 /\ StartsWith(SkipBC(Drop(text, k)), <<" ", EnDash>>)

\* Lines 54-60: when the first span with id "Births" has an h2 parent, every
\* element after that h2 is decomposed.
FirstBirthSpan(doc) ==
    LET hits == {i \in 1..Len(doc) :
                    /\ doc[i].kind = "header"
                    /\ doc[i].idTag = "span"
                    /\ doc[i].id = "Births"}
    IN IF hits = {} THEN 0 ELSE CHOOSE i \in hits : \A j \in hits : i <= j

RemoveBirthsOnward(doc) ==
    LET b == FirstBirthSpan(doc) IN
    IF b # 0 /\ doc[b].wrapper = "h2" THEN SubSeq(doc, 1, b) ELSE doc

Qualifies(node) == node.kind = "li" /\ EVENT_RE_match(TagText(node.children))

\* Lines 62-63: the list items whose text matches EVENT_RE, in document order.
RECURSIVE EventItemsFrom(_, _)
EventItemsFrom(doc, i) ==
    IF i > Len(doc) THEN <<>>
    ELSE (IF Qualifies(doc[i]) THEN <<i>> ELSE <<>>) \o EventItemsFrom(doc, i + 1)

EventItems(doc) == EventItemsFrom(doc, 1)

-----------------------------------------------------------------------------
(* get_events_with_locations, lines 92-105: the year and the description.  *)

Raise(exc, line) == [exc |-> exc, line |-> line]

WikiHref == <<"href=", "/", "wiki/">>
AbsoluteWikiHref == <<"href=", "https://en.wikipedia.org", "/", "wiki/">>

\* Lines 92-100: the year, or the exception raised.
ParseYear(text) ==
    LET parts == Split1(text, Delimiter) IN
    IF Len(parts) # 2 THEN Raise("ValueError", 92) ELSE
    LET year == Strip(parts[1]) IN
    IF Contains(year, <<"B", "C">>)
    THEN LET y == ReplaceAll(year, BCSuffix, <<>>) IN
         IF IsInt(y) THEN [year |-> -IntOf(y)] ELSE Raise("ValueError", 98)
    ELSE IF IsInt(year) THEN [year |-> IntOf(year)] ELSE Raise("ValueError", 100)

\* Lines 103-105: the description, or the exception raised.
ParseDescription(markup) ==
    LET parts == Split1(markup, Delimiter) IN
    IF Len(parts) < 2 THEN Raise("IndexError", 103)
    ELSE [description |-> ReplaceAll(parts[2], WikiHref, AbsoluteWikiHref)]

\* Lines 92-111 on the children of event_tag.
ParseEntry(children) ==
    LET y == ParseYear(TagText(children)) IN
    IF "exc" \in DOMAIN y THEN y ELSE
    LET d == ParseDescription(DecodeContents(children)) IN
    IF "exc" \in DOMAIN d THEN d
    ELSE [year |-> y.year, description |-> d.description,
          links |-> SelectLinks(children)]

-----------------------------------------------------------------------------
(* get_wikilink_coordinates.                                               *)

\* The page sources the secondary endpoint may return: the example of line
\* 129, a directive 91 degrees north, a page without a directive.
SrcSydney ==
    CoordTag \o <<"3", "3", "|", "5", "2", "|", "0", "4", "|", "S", "|",
                  "1", "5", "1", "|", "1", "2", "|", "3", "6", "|", "E">>
SrcNorth91 ==
    CoordTag \o <<"9", "1", "|", "0", "|", "0", "|", "N", "|",
                  "0", "|", "0", "|", "0", "|", "E">>
SrcNoDirective == <<"x">>

\* What request.urlopen(url) of line 159 and response.read() may give.
Responses ==
    { [kind |-> "URLError"],
      [kind |-> "HTTPError"],
      [kind |-> "response", status |-> 204, json |-> "none"],
      [kind |-> "response", status |-> 200, json |-> "no source"],
      [kind |-> "response", status |-> 200, json |-> "source", source |-> SrcSydney],
      [kind |-> "response", status |-> 200, json |-> "source", source |-> SrcNorth91],
      [kind |-> "response", status |-> 200, json |-> "source", source |-> SrcNoDirective] }

\* Lines 145-178.  net: whether request.urlopen was called; out: the
\* coordinates, None, or the exception that leaves the function.
get_wikilink_coordinates(ref, resp) ==
    IF ~ref.hasHref THEN [net |-> FALSE, out |-> Raise("KeyError", 145)]
    ELSE IF ~Contains(ref.href, <<"wiki/">>) THEN [net |-> FALSE, out |-> None]
    ELSE IF resp.kind = "URLError" THEN [net |-> TRUE, out |-> Raise("URLError", 159)]
    ELSE IF resp.kind = "HTTPError" THEN [net |-> TRUE, out |-> None]
    ELSE IF resp.status # 200 THEN [net |-> TRUE, out |-> None]
    ELSE IF resp.json # "source" THEN [net |-> TRUE, out |-> Raise("KeyError", 166)]
    ELSE [net |-> TRUE, out |-> DecodeCoordinates(resp.source)]

IsRaise(out) == "exc" \in DOMAIN out

-----------------------------------------------------------------------------
(* The day pages of the model.                                             *)

HeadTexts ==
    { <<"4", " ", "B", "C", " ", EnDash, " ", "x">>,
      <<"7", " ", EnDash, "x">>,
      <<"B", "o", "r", "n">> }

ChildKinds == {WikiLink, ExternalLink, BareAnchor(<<"n">>), Citation}

\* The section headers: <h2><span id="Births">, <div><h2 id="Births">,
\* <div><span id="Births">, <h2><span id="Events">.
Headers ==
    { Header("h2", "span", "Births"), Header("div", "h2", "Births"),
      Header("div", "span", "Births"), Header("h2", "span", "Events") }

\* The nodes with k links and citations.
NodesWith(k) ==
    { ListItem(<<TextRun(h)>> \o cs) : h \in HeadTexts, cs \in [1..k -> ChildKinds] }
        \cup (IF k = 0 THEN Headers ELSE {})

RECURSIVE SumSeq(_)
SumSeq(ks) == IF ks = <<>> THEN 0 ELSE Head(ks) + SumSeq(Tail(ks))

\* The shapes of a document of n nodes: the number of links and citations of
\* each node, MaxChildren at most in all.
DocShapes(n) == { ks \in [1..n -> 0..MaxChildren] : SumSeq(ks) <= MaxChildren }

\* The documents of one shape.
RECURSIVE DocsShaped(_)
DocsShaped(ks) ==
    IF ks = <<>> THEN {<<>>}
    ELSE LET first == NodesWith(Head(ks))
             others == DocsShaped(Tail(ks))
         IN { <<node>> \o rest : node \in first, rest \in others }

Requests == { [month |-> "July", day |-> 20] }

-----------------------------------------------------------------------------
(* get_events_on_day.                                                      *)

Init ==
    /\ request \in Requests
    /\ pc = "start"
    /\ page = <<>>
    /\ soup = <<>>
    /\ event_items = <<>>
    /\ item_pos = 0
    /\ cur = None
    /\ link_pos = 0
    /\ wiki_calls = 0
    /\ events = <<>>
    /\ total_wiki_calls = 0
    /\ events_on_day = <<>>
    /\ raised = NoException
    /\ lookups = <<>>
    /\ fn_pc = "idle"
    /\ fn_in = None
    /\ fn_out = None

\* Line 50 raises: the page is unreachable or answers with an error status.
FetchFails ==
    /\ pc = "start"
    /\ \E exc \in {"URLError", "HTTPError"} : raised' = Raise(exc, 50)
    /\ pc' = "raised"
    /\ UNCHANGED <<request, page, soup, event_items, item_pos, cur, link_pos, wiki_calls,
                   events, total_wiki_calls, events_on_day, lookups, fnVars>>

\* Lines 49-67: the page is fetched and parsed, the Births section and what
\* follows it removed, the list items classified.
FetchPage ==
    /\ pc = "start"
    /\ \E n \in 0..MaxNodes : \E ks \in DocShapes(n) : \E doc \in DocsShaped(ks) :
          /\ page' = doc
          /\ soup' = RemoveBirthsOnward(doc)
          /\ event_items' = EventItems(RemoveBirthsOnward(doc))
    /\ events_on_day' = <<>>
    /\ total_wiki_calls' = 1
    /\ item_pos' = 1
    /\ pc' = "loop"
    /\ UNCHANGED <<request, cur, link_pos, wiki_calls, events, raised, lookups, fnVars>>

\* Lines 68-72 and 92-112: the next list item loses its citations and is
\* split into year and description; its links are selected.
BeginEntry ==
    /\ pc = "loop"
    /\ item_pos <= Len(event_items)
    /\ LET i == event_items[item_pos]
           children == RemoveCitations(soup[i].children)
           parsed == ParseEntry(children)
       IN /\ soup' = [soup EXCEPT ![i].children = children]
          /\ \/ /\ IsRaise(parsed)
                /\ raised' = parsed
                /\ pc' = "raised"
                /\ UNCHANGED <<cur, link_pos, wiki_calls, events>>
             \/ /\ ~IsRaise(parsed)
                /\ cur' = parsed
                /\ link_pos' = 1
                /\ wiki_calls' = 0
                /\ events' = <<>>
                /\ pc' = "links"
                /\ UNCHANGED raised
    /\ UNCHANGED <<request, page, event_items, item_pos, total_wiki_calls, events_on_day,
                   lookups, fnVars>>

\* Line 115 moved under the test of line 116: only resolved links are counted.
CountCall_only_found(n, r) == IF r.out # None THEN n + 1 ELSE n

\* Line 115.
CountCall(n, r) == n + 1

NewEvent(entry, coordinates) ==
    [year |-> entry.year, description |-> entry.description,
     longitude |-> coordinates.longitude, latitude |-> coordinates.latitude]

\* Lines 116-123 with an event left out when the entry already has an equal one.
AppendEvent_deduplicating(evs, entry, coordinates) ==
    IF coordinates # None /\ \A k \in 1..Len(evs) : evs[k] # NewEvent(entry, coordinates)
    THEN Append(evs, NewEvent(entry, coordinates))
    ELSE evs

\* Lines 116-123.
AppendEvent(evs, entry, coordinates) ==
    IF coordinates # None THEN Append(evs, NewEvent(entry, coordinates)) ELSE evs

\* Lines 113-123: one turn of the loop over the links.
ResolveLink ==
    /\ pc = "links"
    /\ link_pos <= Len(cur.links)
    /\ \E resp \in Responses :
          LET r == get_wikilink_coordinates(cur.links[link_pos], resp) IN
          /\ lookups' = Append(lookups, [item |-> event_items[item_pos], link |-> link_pos,
                                         net |-> r.net, out |-> r.out])
          /\ \/ /\ IsRaise(r.out)
                /\ raised' = r.out
                /\ pc' = "raised"
                /\ UNCHANGED <<link_pos, wiki_calls, events>>
             \/ /\ ~IsRaise(r.out)
                /\ wiki_calls' = CountCall(wiki_calls, r)
                /\ events' = AppendEvent(events, cur, r.out)
                /\ link_pos' = link_pos + 1
                /\ UNCHANGED <<pc, raised>>
    /\ UNCHANGED <<request, page, soup, event_items, item_pos, cur, total_wiki_calls,
                   events_on_day, fnVars>>

Complete(event) ==
    [year |-> event.year, description |-> event.description,
     longitude |-> event.longitude, latitude |-> event.latitude,
     month |-> request.month, day |-> request.day]

\* Lines 77-79 with the entry's events put in front of the list.
Extend_in_front(all, evs) == [i \in 1..Len(evs) |-> Complete(evs[i])] \o all

\* Lines 77-79.
Extend(all, evs) == all \o [i \in 1..Len(evs) |-> Complete(evs[i])]

\* Lines 125 and 77-81: the entry's events and calls are added to the totals.
FinishEntry ==
    /\ pc = "links"
    /\ link_pos > Len(cur.links)
    /\ events_on_day' = Extend(events_on_day, events)
    /\ total_wiki_calls' = total_wiki_calls + wiki_calls
    /\ item_pos' = item_pos + 1
    /\ pc' = "loop"
    /\ UNCHANGED <<request, page, soup, event_items, cur, link_pos, wiki_calls, events,
                   raised, lookups, fnVars>>

\* Line 83.
Return ==
    /\ pc = "loop"
    /\ item_pos > Len(event_items)
    /\ pc' = "done"
    /\ UNCHANGED <<request, page, soup, event_items, item_pos, cur, link_pos, wiki_calls,
                   events, total_wiki_calls, events_on_day, raised, lookups, fnVars>>

Next == FetchFails \/ FetchPage \/ BeginEntry \/ ResolveLink \/ FinishEntry \/ Return

Spec == Init /\ [][Next]_vars

-----------------------------------------------------------------------------
(* Claims about get_events_on_day.                                         *)

HasCoordinates(out) == "latitude" \in DOMAIN out

\* The links of list item i of the fetched page, citations included.
LinksOnPage(i) ==
    Cardinality({j \in 1..Len(page[i].children) : page[i].children[j].link})

\* The links of list item i of the fetched page that are no part of a citation.
LinksOutsideCitations(i) ==
    Cardinality({j \in 1..Len(page[i].children) : page[i].children[j].tag = "a"})

C2_CallsCountNetworkRequests ==
    pc = "done" =>
        total_wiki_calls = 1 + Cardinality({k \in 1..Len(lookups) : lookups[k].net})

\* C3: the resolution of a link never ends in an exception: it yields
\* coordinates or "no coordinates", and the request goes on.
C3_LinkFailureNeverAborts ==
    \A k \in 1..Len(lookups) : ~IsRaise(lookups[k].out)

Fetched == pc \in {"loop", "links", "done"} \/ (pc = "raised" /\ raised.line # 50)

BirthsAnchors == {b \in 1..Len(page) : page[b].kind = "header" /\ page[b].id = "Births"}

InEventItems(i) == \E k \in 1..Len(event_items) : event_items[k] = i

\* C4: when the fetched document has an element with anchor id "Births", no
\* list item after it is in the qualifying set or is looked up, and the list
\* items before it qualify as they would without it.
C4_NothingAfterBirths ==
    Fetched =>
        \A b \in BirthsAnchors :
            /\ \A i \in (b + 1)..Len(page) : ~InEventItems(i)
            /\ \A k \in 1..Len(lookups) : lookups[k].item < b
            /\ (\A c \in BirthsAnchors : b <= c) =>
                  \A i \in 1..(b - 1) : Qualifies(page[i]) => InEventItems(i)

\* The lookups of the entry being parsed that returned coordinates, in order.
FoundForCurrent ==
    SelectSeq(lookups, LAMBDA l : l.item = event_items[item_pos] /\ HasCoordinates(l.out))

\* C5: inside and at the end of get_events_with_locations, the events of the
\* entry are one per link whose resolution returned coordinates, in order,
\* each with that link's latitude and longitude and all with the entry's year
\* and description; with no such link the list is empty.
C5_OneEventPerResolvedLink ==
    pc = "links" =>
        /\ Len(events) = Len(FoundForCurrent)
        /\ \A k \in 1..Len(events) :
              /\ events[k].latitude = FoundForCurrent[k].out.latitude
              /\ events[k].longitude = FoundForCurrent[k].out.longitude
              /\ events[k].year = cur.year
              /\ events[k].description = cur.description
        /\ wiki_calls = link_pos - 1

\* An entry with two links that both resolved, to different coordinates.
C5_Witness ==
    /\ pc = "links"
    /\ link_pos > Len(cur.links)
    /\ Len(cur.links) = 2
    /\ Len(events) = 2
    /\ events[1].latitude # events[2].latitude
    /\ events[1].year = events[2].year

EntryOf(i) == ParseEntry(RemoveCitations(page[i].children))

\* The events the lookups of the history stand for, in the order of the calls.
EventsInCallOrder ==
    LET found == SelectSeq(lookups, LAMBDA l : HasCoordinates(l.out)) IN
    [k \in 1..Len(found) |->
        [year |-> EntryOf(found[k].item).year,
         description |-> EntryOf(found[k].item).description,
         longitude |-> found[k].out.longitude, latitude |-> found[k].out.latitude,
         month |-> request.month, day |-> request.day]]

Before(a, b) == a.item < b.item \/ (a.item = b.item /\ a.link < b.link)

\* C6: the lookups are made in page order of the entries and, within an
\* entry, in document order of its links, and the events are in that order:
\* the events returned, followed by those of the entry being parsed, are the
\* events of the resolved lookups in the order of the calls.
C6_SequentialInPageOrder ==
    /\ \A a, b \in 1..Len(lookups) : a < b => Before(lookups[a], lookups[b])
    /\ pc \in {"loop", "done"} => events_on_day = EventsInCallOrder
    /\ pc = "links" =>
          events_on_day \o [k \in 1..Len(events) |-> Complete(events[k])] = EventsInCallOrder

\* Two entries, each with a link that resolved: the event of the first entry
\* comes first in the result.
C6_Witness ==
    /\ pc = "done"
    /\ Len(events_on_day) = 2
    /\ Len(lookups) = 2
    /\ lookups[1].item < lookups[2].item
    /\ events_on_day[1].latitude = lookups[1].out.latitude
    /\ events_on_day[1].latitude # events_on_day[2].latitude

\* C7: every event returned has its latitude in [-90, 90] and its longitude
\* in [-180, 180] (in ten-thousandths of a degree).
C7_CoordinatesInRange ==
    pc = "done" =>
        \A k \in 1..Len(events_on_day) :
            /\ events_on_day[k].latitude \in -900000..900000
            /\ events_on_day[k].longitude \in -1800000..1800000

-----------------------------------------------------------------------------
(* One list item through the classifier of line 63 and the parser of lines *)
(* 70-72 and 92-111.                                                       *)

ParseAlphabet == {"7", " ", "B", "C", EnDash, "x"}

\* The examples of lines 23-24 and of the specification, an entry whose dash
\* is in bold, an entry whose delimiter is inside a citation.
ExampleItems ==
    { <<TextRun(<<"1", " ", "B", "C", " ", EnDash, " ", "T">>)>>,
      <<TextRun(<<"4", "4", " ", "B", "C", " ", EnDash, " ", "x">>)>>,
      <<TextRun(<<"1", "9", "6", "9", " ", EnDash, " ", "x">>), WikiLink>>,
      <<TextRun(<<"7", " ", "B", "C", " ", "B", "C", " ", EnDash, " ", "x">>)>>,
      <<TextRun(<<"7", " ">>), BoldRun(<<EnDash>>), TextRun(<<" ", "x">>)>>,
      <<TextRun(<<"7", " ", EnDash>>), Citation, TextRun(<<" ", "x">>)>>,
      <<TextRun(<<"7">>), [Citation EXCEPT !.s = <<" ", EnDash, " ">>], TextRun(<<"x">>)>> }

InitParse ==
    /\ RequestIdle
    /\ fn_pc = "classify"
    /\ \/ \E n \in 0..MaxTextLen : \E t \in [1..n -> ParseAlphabet] : fn_in = <<TextRun(t)>>
       \/ fn_in \in ExampleItems
    /\ fn_out = None

\* Line 63: the filter.
ClassifyItem ==
    /\ fn_pc = "classify"
    /\ fn_pc' = IF EVENT_RE_match(TagText(fn_in)) THEN "parse" ELSE "dropped"
    /\ UNCHANGED <<fn_in, fn_out, requestVars>>

\* Lines 70-72 and 92-111.
ParseItem ==
    /\ fn_pc = "parse"
    /\ fn_out' = ParseEntry(RemoveCitations(fn_in))
    /\ fn_pc' = "parsed"
    /\ UNCHANGED <<fn_in, requestVars>>

NextParse == ClassifyItem \/ ParseItem

SpecParse == InitParse /\ [][NextParse]_vars

\* C10: every list item the classifier accepts is parsed without an
\* exception, and its year is minus the leading number when the text carries
\* "BC" and the leading number otherwise.
C10_AcceptedItemsParse ==
    fn_pc = "parsed" =>
        /\ ~IsRaise(fn_out)
        /\ LET text == TagText(fn_in)
               n == IntOf(SubSeq(text, 1, DigitRun(text)))
           IN fn_out.year = IF Contains(text, <<"B", "C">>) THEN -n ELSE n

====
